---- MODULE Spec2Model ----
(***************************************************************************)
(* Model of protect_secrets.py: the batch runner process_secrets_file, the *)
(* per-record coroutine process_csv_record, the asyncio semaphore that     *)
(* gates it and the scoped Submission Adapter it drives.                   *)
(*                                                                         *)
(* Control is modelled the way asyncio runs it: one coroutine runs at a    *)
(* time (variable current) and keeps control until it reaches an await     *)
(* that really suspends.  process_csv_record has exactly one await, the    *)
(* semaphore acquisition of `async with semaphore`; the adapter is used    *)
(* through a plain `with` and plain calls.                                 *)
(***************************************************************************)
EXTENDS Integers, Sequences, FiniteSets, TLC

\* ---------------------------------------------------------------- bounds
MaxRecords == 2
MaxConcurrent == 2
MaxSampleRecords == 3
MaxOldLines == 2
MaxSampleRuns == 2

\* ------------------------------------------------------- values and input
\* Python's None, as DictReader stores it for a column a short row lacks and
\* as dict.get returns it for an absent key.
None == "(None)"

required_fields ==
    <<"username", "password", "secret_type", "secret", "secret_desc", "keepic">>

\* The local filesystem the run sees: what Path(p).stat() does for a path.
PathStat(p) ==
    CASE p = "./keepic.jpg"    -> "exists"
      [] p = "./report.pdf"    -> "exists"
      [] p = "/root/keepic.jpg" -> "oserror"
      [] OTHER                 -> "absent"

ValidRow ==
    [username |-> "user1", password |-> "password1", secret_type |-> "text",
     secret |-> "This is secret #1", secret_desc |-> "Sample Secret 1",
     keepic |-> "./keepic.jpg"]

\* The rows a CSV file of the model is made of.
SampleRows ==
    { ValidRow,
      [ValidRow EXCEPT !.secret_type = "video"],
      [ValidRow EXCEPT !.secret_type = "image", !.secret = "./missing.png"],
      [ValidRow EXCEPT !.secret_type = "file", !.secret = "/root/keepic.jpg"],
      [ValidRow EXCEPT !.keepic = "./missing.jpg"],
      [ValidRow EXCEPT !.password = None],
      [ValidRow EXCEPT !.username = ""] }

RowLists == UNION { [1..n -> SampleRows] : n \in 0..MaxRecords }

\* What open(csv_file) and csv.DictReader give: an error, or the list of rows.
CsvFiles ==
    { [readable |-> FALSE, rows |-> <<>>] } \cup
    { [readable |-> TRUE, rows |-> rs] : rs \in RowLists }

\* --max-concurrent is parsed with type=int: any integer, negative included.
ConcurrencyValues == (0 - 1)..MaxConcurrent

\* ------------------------------------------------------------ validation
Falsy(v) == v = None \/ v = ""

MissingRequiredField(record) ==
    \E k \in 1..Len(required_fields) : Falsy(record[required_fields[k]])

\* validate_file_path: True / False, or the OSError Path.exists lets through.
validate_file_path(file_path) ==
    CASE PathStat(file_path) = "exists" -> "True"
      [] PathStat(file_path) = "absent" -> "False"
      [] OTHER                          -> "raise"

NeedsSecretFile(record) == record.secret_type \in {"file", "image"}

\* Lines 20-33 of process_csv_record: "ok" when the code goes on to build the
\* submission, "False" when it returns False, "raise" when a check raises.
Validation(record) ==
    IF MissingRequiredField(record) THEN "False"
    ELSE IF NeedsSecretFile(record) /\ validate_file_path(record.secret) # "True"
         THEN validate_file_path(record.secret)
    ELSE IF validate_file_path(record.keepic) # "True"
         THEN validate_file_path(record.keepic)
    ELSE "ok"

\* A projection that copies the secret into text for every type.
SecretSubmissionTextAlways(record) ==
    [name |-> record.secret_desc,
     type |-> record.secret_type,
     tag |-> "",
     text |-> record.secret,
     keepic_path |-> record.keepic]

\* Lines 36-42.
SecretSubmission(record) ==
    [name |-> record.secret_desc,
     type |-> record.secret_type,
     tag |-> "",
     text |-> IF record.secret_type = "text" THEN record.secret ELSE "",
     keepic_path |-> record.keepic]

\* ------------------------------------------------------------------ state
VARIABLES
    csv_file,        \* input: the file named by --csv
    max_concurrent,  \* input: --max-concurrent
    records,         \* list(reader), <<>> until the file is read
    results,         \* the dict process_secrets_file returns
    completed,       \* the loop counter of process_secrets_file
    progress,        \* the progress lines logged so far
    mainpc,          \* where process_secrets_file is
    semaphore,       \* the asyncio.Semaphore, once constructed
    pc,              \* where each record's process_csv_record is
    pending,         \* the return value a record's coroutine is leaving with
    outcome,         \* the result of each record's task, once it is done
    adapter,         \* each record's SecretVaultSubmitter: none/failed/open/closed
    authResult,      \* what authenticate did for the record
    submitResult,    \* what submit_secret did for the record
    submission,      \* the SecretSubmission built for the record, if any
    calls,           \* the calls made on the record's adapter, in order
    released,        \* history: how often the record released the permit
    counted,         \* history: the counter the record's result was added to
    doneq,           \* finished tasks as_completed has not handed out yet
    current,         \* the coroutine the event loop is running
    output_file,     \* the file generate_sample_csv writes, as a list of lines
    num_records,     \* input: --num-records
    sample_runs      \* how often generate_sample_csv has run

vars ==
    <<csv_file, max_concurrent, records, results, completed, progress, mainpc,
      semaphore, pc, pending, outcome, adapter, authResult, submitResult,
      submission, calls, released, counted, doneq, current, output_file,
      num_records, sample_runs>>

sampleVars == <<output_file, num_records, sample_runs>>
inputVars == <<csv_file, max_concurrent, sampleVars>>
adapterVars == <<adapter, authResult, submitResult, submission, calls>>

Recs == 1..Len(csv_file.rows)

LoopRuns == <<"loop">>
MainRuns == <<"main">>
TaskRuns(i) == <<"task", i>>

Init ==
    /\ csv_file \in CsvFiles
    /\ max_concurrent \in ConcurrencyValues
    /\ records = <<>>
    /\ results = [total |-> 0, success |-> 0, failed |-> 0]
    /\ completed = 0
    /\ progress = <<>>
    /\ mainpc = "open"
    /\ semaphore = [created |-> FALSE, value |-> 0, waiters |-> <<>>]
    /\ pc = [i \in Recs |-> "absent"]
    /\ pending = [i \in Recs |-> "none"]
    /\ outcome = [i \in Recs |-> "pending"]
    /\ adapter = [i \in Recs |-> "none"]
    /\ authResult = [i \in Recs |-> "none"]
    /\ submitResult = [i \in Recs |-> "none"]
    /\ submission = [i \in Recs |-> <<>>]
    /\ calls = [i \in Recs |-> <<>>]
    /\ released = [i \in Recs |-> 0]
    /\ counted = [i \in Recs |-> "no"]
    /\ doneq = <<>>
    /\ current = MainRuns
    /\ output_file = [writable |-> TRUE, lines |-> <<>>]
    /\ num_records = 0
    /\ sample_runs = 0

\* ------------------------------------------------- process_secrets_file
\* A batch body without its try/except: the exception leaves the function.
BatchExitUncaught(completion) ==
    IF completion = "raise" THEN "raised" ELSE "done"

\* Lines 74 and 102-105: whether the body of the try block ends normally or
\* with an exception, the error is logged and `results` is returned.
BatchExit(completion) == "done"

\* Lines 75-79: read the file; an error goes to the except of line 102.
ReadCsv ==
    /\ mainpc = "open" /\ current = MainRuns
    /\ IF csv_file.readable
       THEN /\ records' = csv_file.rows
            /\ results' = [results EXCEPT !.total = Len(csv_file.rows)]
            /\ mainpc' = "semaphore"
       ELSE /\ mainpc' = BatchExit("raise")
            /\ UNCHANGED <<records, results>>
    /\ UNCHANGED <<inputVars, completed, progress, semaphore, pc, pending,
                   outcome, adapterVars, released, counted, doneq, current>>

\* Line 82: asyncio.Semaphore(value) raises ValueError for value < 0.
CreateSemaphore ==
    /\ mainpc = "semaphore" /\ current = MainRuns
    /\ IF max_concurrent < 0
       THEN /\ mainpc' = BatchExit("raise")
            /\ UNCHANGED semaphore
       ELSE /\ mainpc' = "tasks"
            /\ semaphore' = [created |-> TRUE, value |-> max_concurrent,
                             waiters |-> <<>>]
    /\ UNCHANGED <<inputVars, records, results, completed, progress, pc,
                   pending, outcome, adapterVars, released, counted, doneq,
                   current>>

\* Lines 85-92: one coroutine per record, all scheduled by as_completed.
CreateTasks ==
    /\ mainpc = "tasks" /\ current = MainRuns
    /\ pc' = [i \in Recs |-> "scheduled"]
    /\ mainpc' = "for"
    /\ UNCHANGED <<inputVars, records, results, completed, progress,
                   semaphore, pending, outcome, adapterVars, released, counted,
                   doneq, current>>

\* Lines 92-94: the next future of as_completed; completed is counted first,
\* then the result is awaited, which suspends while no task has finished.
NextResult ==
    /\ mainpc = "for" /\ current = MainRuns
    /\ completed < Len(records)
    /\ completed' = completed + 1
    /\ mainpc' = "await"
    /\ current' = IF doneq = <<>> THEN LoopRuns ELSE MainRuns
    /\ UNCHANGED <<inputVars, records, results, progress, semaphore, pc,
                   pending, outcome, adapterVars, released, counted, doneq>>

\* A tally that depends on what was counted before: a success that arrives
\* after a failure is booked as a failure.
TallyResultOrdered(res, r) ==
    IF r = "True" /\ res.failed = 0
    THEN [res EXCEPT !.success = @ + 1]
    ELSE [res EXCEPT !.failed = @ + 1]

\* A tally that drops a failure instead of counting it.
TallyResultLost(res, r) ==
    IF r = "True" THEN [res EXCEPT !.success = @ + 1] ELSE res

\* Lines 94-97: a truthy result adds one to success, any other to failed.
TallyResult(res, r) ==
    IF r = "True"
    THEN [res EXCEPT !.success = @ + 1]
    ELSE [res EXCEPT !.failed = @ + 1]

\* Lines 94-100: the awaited result arrives and is tallied; a task that ended
\* with an exception makes the await raise, into the except of line 102.
Tally ==
    /\ mainpc = "await" /\ doneq # <<>>
    /\ \/ current = MainRuns
       \/ current = LoopRuns /\ \A j \in Recs : pc[j] # "scheduled"
    /\ LET r == outcome[Head(doneq)]
           tallied == TallyResult(results, r)
       IN  IF r = "Raised"
           THEN /\ mainpc' = BatchExit("raise")
                /\ UNCHANGED <<results, progress, counted>>
           ELSE /\ mainpc' = "for"
                /\ results' = tallied
                /\ counted' = [counted EXCEPT ![Head(doneq)] =
                                  IF r = "True" THEN "success" ELSE "failed"]
                /\ progress' = Append(progress,
                                  [completed |-> completed,
                                   total |-> tallied.total,
                                   success |-> tallied.success,
                                   failed |-> tallied.failed])
    /\ doneq' = Tail(doneq)
    /\ current' = MainRuns
    /\ UNCHANGED <<inputVars, records, completed, semaphore, pc, pending,
                   outcome, adapterVars, released>>

\* Line 105, after the loop has handed out every future.
ReturnResults ==
    /\ mainpc = "for" /\ current = MainRuns
    /\ completed = Len(records)
    /\ mainpc' = BatchExit("return")
    /\ UNCHANGED <<inputVars, records, results, completed, progress,
                   semaphore, pc, pending, outcome, adapterVars, released,
                   counted, doneq, current>>

\* --------------------------------------------------- asyncio.Semaphore
\* A semaphore that never makes a task wait.
CanAcquireAlways(value) == TRUE

\* Semaphore.acquire goes through without suspending while the value is > 0.
CanAcquire(value) == value > 0

\* A release that does not give the permit back.
SemReleaseLost(value) == value

\* Semaphore.release gives the permit back.
SemRelease(value) == value + 1

\* ---------------------------------------------------- process_csv_record
\* A try block without its except clause.
TryExitUncaught(completion) == completion

\* Lines 19 and 61-63: an exception leaving the try block is logged and the
\* coroutine returns False.
TryExit(completion) == IF completion = "raise" THEN "False" ELSE completion

\* An adapter used without `with`: leaving the block skips __exit__.
ScopeExitSkipped(adapterState) == "release"

\* Line 45: a return or an exception inside the `with` block runs the
\* adapter's __exit__ before it goes any further.
ScopeExit(adapterState) ==
    IF adapterState = "open" THEN "exit_adapter" ELSE "release"

\* Where record i goes when its body completes with `completion`
\* ("True" / "False" returned, or "raise").
Leave(i, completion) ==
    /\ pc' = [pc EXCEPT ![i] = ScopeExit(adapter[i])]
    /\ pending' = [pending EXCEPT ![i] =
                      IF ScopeExit(adapter[i]) = "exit_adapter"
                      THEN completion ELSE TryExit(completion)]

\* Line 18, `async with semaphore`: the loop runs a scheduled task, which
\* takes a permit and goes on, or queues as a waiter and suspends.
AcquirePermit(i) ==
    /\ current = LoopRuns /\ pc[i] = "scheduled"
    /\ IF CanAcquire(semaphore.value)
       THEN /\ semaphore' = [semaphore EXCEPT !.value = @ - 1]
            /\ pc' = [pc EXCEPT ![i] = "validate"]
            /\ current' = TaskRuns(i)
       ELSE /\ semaphore' = [semaphore EXCEPT !.waiters = Append(@, i)]
            /\ pc' = [pc EXCEPT ![i] = "waiting"]
            /\ UNCHANGED current
    /\ UNCHANGED <<inputVars, records, results, completed, progress, mainpc,
                   pending, outcome, adapterVars, released, counted, doneq>>

\* Lines 20-33: required fields, then the files the record refers to.
ValidateRecord(i) ==
    /\ current = TaskRuns(i) /\ pc[i] = "validate"
    /\ IF Validation(records[i]) = "ok"
       THEN /\ pc' = [pc EXCEPT ![i] = "build"]
            /\ UNCHANGED pending
       ELSE Leave(i, Validation(records[i]))
    /\ UNCHANGED <<inputVars, records, results, completed, progress, mainpc,
                   semaphore, outcome, adapterVars, released, counted, doneq, current>>

\* Lines 36-42.
BuildSubmission(i) ==
    /\ current = TaskRuns(i) /\ pc[i] = "build"
    /\ submission' = [submission EXCEPT ![i] = <<SecretSubmission(records[i])>>]
    /\ pc' = [pc EXCEPT ![i] = "enter"]
    /\ UNCHANGED <<inputVars, records, results, completed, progress, mainpc,
                   semaphore, pending, outcome, adapter, authResult,
                   submitResult, calls, released, counted, doneq, current>>

\* Line 45: SecretVaultSubmitter(...) and its __enter__, which may raise.
EnterAdapter(i) ==
    /\ current = TaskRuns(i) /\ pc[i] = "enter"
    /\ calls' = [calls EXCEPT ![i] = Append(@, <<"__enter__">>)]
    /\ \E r \in {"ok", "raise"} :
          IF r = "ok"
          THEN /\ adapter' = [adapter EXCEPT ![i] = "open"]
               /\ pc' = [pc EXCEPT ![i] = "authenticate"]
               /\ UNCHANGED pending
          ELSE /\ adapter' = [adapter EXCEPT ![i] = "failed"]
               /\ Leave(i, "raise")
    /\ UNCHANGED <<inputVars, records, results, completed, progress, mainpc,
                   semaphore, outcome, authResult, submitResult, submission,
                   released, counted, doneq, current>>

\* A record that goes on to submit whatever authenticate returned.
AuthPassedUnchecked(r) == r # "raise"

\* Line 49: `if not submitter.authenticate(...)` returns False; only a truthy
\* result goes on to submit.
AuthPassed(r) == r = "True"

\* Line 49: the call of submitter.authenticate, a plain (blocking) call.
CallAuthenticate(i) ==
    /\ current = TaskRuns(i) /\ pc[i] = "authenticate"
    /\ pc' = [pc EXCEPT ![i] = "in_authenticate"]
    /\ calls' = [calls EXCEPT ![i] =
                    Append(@, <<"authenticate", records[i].username,
                                records[i].password>>)]
    /\ UNCHANGED <<inputVars, records, results, completed, progress, mainpc,
                   semaphore, pending, outcome, adapter, authResult,
                   submitResult, submission, released, counted, doneq,
                   current>>

\* Lines 49-51: authenticate returns (truthy or falsy) or raises.
AuthenticateReturns(i) ==
    /\ current = TaskRuns(i) /\ pc[i] = "in_authenticate"
    /\ \E r \in {"True", "False", "raise"} :
          /\ authResult' = [authResult EXCEPT ![i] = r]
          /\ IF AuthPassed(r)
             THEN /\ pc' = [pc EXCEPT ![i] = "submit"]
                  /\ UNCHANGED pending
             ELSE Leave(i, r)
    /\ UNCHANGED <<inputVars, records, results, completed, progress, mainpc,
                   semaphore, outcome, adapter, submitResult, submission,
                   calls, released, counted, doneq, current>>

\* Line 54: the call of submitter.submit_secret(secret), a plain call.
CallSubmit(i) ==
    /\ current = TaskRuns(i) /\ pc[i] = "submit"
    /\ pc' = [pc EXCEPT ![i] = "in_submit"]
    /\ calls' = [calls EXCEPT ![i] =
                    Append(@, <<"submit_secret", submission[i][1]>>)]
    /\ UNCHANGED <<inputVars, records, results, completed, progress, mainpc,
                   semaphore, pending, outcome, adapter, authResult,
                   submitResult, submission, released, counted, doneq,
                   current>>

\* Lines 54-59: submit_secret returns (truthy or falsy) or raises.
SubmitReturns(i) ==
    /\ current = TaskRuns(i) /\ pc[i] = "in_submit"
    /\ \E r \in {"True", "False", "raise"} :
          /\ submitResult' = [submitResult EXCEPT ![i] = r]
          /\ Leave(i, r)
    /\ UNCHANGED <<inputVars, records, results, completed, progress, mainpc,
                   semaphore, outcome, adapter, authResult, submission,
                   calls, released, counted, doneq, current>>

\* Line 45, leaving the `with` block: __exit__ releases the adapter and may
\* itself raise, which replaces whatever the block was leaving with.
ExitAdapter(i) ==
    /\ current = TaskRuns(i) /\ pc[i] = "exit_adapter"
    /\ adapter' = [adapter EXCEPT ![i] = "closed"]
    /\ calls' = [calls EXCEPT ![i] = Append(@, <<"__exit__">>)]
    /\ pc' = [pc EXCEPT ![i] = "release"]
    /\ \E r \in {"ok", "raise"} :
          /\ pending' = [pending EXCEPT ![i] =
                            TryExit(IF r = "raise" THEN "raise" ELSE @)]
    /\ UNCHANGED <<inputVars, records, results, completed, progress, mainpc,
                   semaphore, outcome, authResult, submitResult, submission,
                   released, counted, doneq, current>>

\* Line 18, leaving `async with semaphore`: the permit goes back and the first
\* waiter, if any, is made runnable again; the coroutine ends, its task is
\* done and as_completed queues it.  An exception the try block did not turn
\* into a return value ends the task with that exception.
ReleasePermit(i) ==
    /\ current = TaskRuns(i) /\ pc[i] = "release"
    /\ semaphore' =
          [semaphore EXCEPT !.value = SemRelease(@),
                            !.waiters = IF @ = <<>> THEN @ ELSE Tail(@)]
    /\ pc' = [j \in Recs |->
                 IF j = i THEN "finished"
                 ELSE IF semaphore.waiters # <<>> /\ j = Head(semaphore.waiters)
                      THEN "scheduled"
                 ELSE pc[j]]
    /\ outcome' = [outcome EXCEPT ![i] =
                      IF pending[i] = "raise" THEN "Raised" ELSE pending[i]]
    /\ released' = [released EXCEPT ![i] = @ + 1]
    /\ doneq' = Append(doneq, i)
    /\ current' = LoopRuns
    /\ UNCHANGED <<inputVars, records, results, completed, progress, mainpc,
                   pending, adapterVars, counted>>

Next ==
    \/ ReadCsv
    \/ CreateSemaphore
    \/ CreateTasks
    \/ NextResult
    \/ Tally
    \/ ReturnResults
    \/ \E i \in Recs : AcquirePermit(i)
    \/ \E i \in Recs : ValidateRecord(i)
    \/ \E i \in Recs : BuildSubmission(i)
    \/ \E i \in Recs : EnterAdapter(i)
    \/ \E i \in Recs : CallAuthenticate(i)
    \/ \E i \in Recs : AuthenticateReturns(i)
    \/ \E i \in Recs : CallSubmit(i)
    \/ \E i \in Recs : SubmitReturns(i)
    \/ \E i \in Recs : ExitAdapter(i)
    \/ \E i \in Recs : ReleasePermit(i)

Spec == Init /\ [][Next]_vars

\* The event loop never idles while the function or a task can take a step.
FairSpec == Spec /\ WF_vars(Next)

\* --------------------------------------------------- generate_sample_csv
\* Line 111.
headers ==
    <<"username", "password", "secret_type", "secret", "secret_desc", "keepic">>

\* Lines 119-126: the row written for i of range(num_records); a line of the
\* file is the list of fields csv.writer joins with ';'.
SampleRow(i) ==
    <<"user" \o ToString(i + 1),
      "password" \o ToString(i + 1),
      "text",
      "This is secret #" \o ToString(i + 1),
      "Sample Secret " \o ToString(i + 1),
      "./keepic.jpg">>

\* Lines 118-126: range(n) is empty for n <= 0.
SampleLines(n) == [k \in 1..n |-> SampleRow(k - 1)]

\* A file opened with mode 'a': what it held stays in front.
OpenForAppend(old) == old

\* Line 113: open(output_file, 'w') truncates the file.
OpenForWrite(old) == <<>>

\* What the output path may hold before a run.
OldLines == { headers, SampleRow(0), <<"# notes">> }
OldContents == UNION { [1..n -> OldLines] : n \in 0..MaxOldLines }

\* Lines 108-131: write the header and the rows; an error on open is logged
\* and nothing is written.
GenerateSample ==
    /\ sample_runs < MaxSampleRuns
    /\ sample_runs' = sample_runs + 1
    /\ output_file' =
          IF output_file.writable
          THEN [output_file EXCEPT !.lines =
                   OpenForWrite(@) \o <<headers>> \o SampleLines(num_records)]
          ELSE output_file
    /\ UNCHANGED <<csv_file, max_concurrent, num_records, records, results,
                   completed, progress, mainpc, semaphore, pc, pending,
                   outcome, adapterVars, released, counted, doneq, current>>

\* Lines 150-152: with --generate-sample nothing of the batch path runs.
SampleInit ==
    /\ csv_file = [readable |-> FALSE, rows |-> <<>>]
    /\ max_concurrent = 0
    /\ records = <<>>
    /\ results = [total |-> 0, success |-> 0, failed |-> 0]
    /\ completed = 0
    /\ progress = <<>>
    /\ mainpc = "open"
    /\ semaphore = [created |-> FALSE, value |-> 0, waiters |-> <<>>]
    /\ pc = <<>> /\ pending = <<>> /\ outcome = <<>> /\ adapter = <<>>
    /\ authResult = <<>> /\ submitResult = <<>> /\ submission = <<>>
    /\ calls = <<>> /\ released = <<>> /\ counted = <<>>
    /\ doneq = <<>>
    /\ current = MainRuns
    /\ output_file \in [writable : BOOLEAN, lines : OldContents]
    /\ num_records \in 0..MaxSampleRecords
    /\ sample_runs = 0

SampleNext == GenerateSample

SampleSpec == SampleInit /\ [][SampleNext]_vars

\* ------------------------------------------------------------ type check
TypeOK ==
    /\ mainpc \in {"open", "semaphore", "tasks", "for", "await", "done",
                  "raised"}
    /\ \A i \in Recs :
          /\ pc[i] \in {"absent", "scheduled", "waiting", "validate", "build",
                        "enter", "authenticate", "in_authenticate", "submit",
                        "in_submit", "exit_adapter", "release", "finished"}
          /\ pending[i] \in {"none", "True", "False", "raise"}
          /\ outcome[i] \in {"pending", "True", "False", "Raised"}
          /\ adapter[i] \in {"none", "failed", "open", "closed"}
    /\ current \in {LoopRuns, MainRuns} \cup {TaskRuns(i) : i \in Recs}

\* ------------------------------------------------------------ the claims
\* The records that hold a permit: past the acquisition of line 18 and not
\* yet out of the `async with` block.
Holding(i) ==
    pc[i] \in {"validate", "build", "enter", "authenticate", "in_authenticate",
               "submit", "in_submit", "exit_adapter", "release"}

\* The adapter was never constructed or called for record i.
AdapterUntouched(i) ==
    adapter[i] = "none" /\ authResult[i] = "none" /\ submitResult[i] = "none"

\* Record i is not a success, and a returned run has it in `failed`.
CountedAsFailed(i) ==
    /\ outcome[i] # "True"
    /\ counted[i] # "success"
    /\ mainpc = "done" => counted[i] = "failed"

\* C1: whenever process_secrets_file has returned, for every record set,
\* every integer max_concurrent and every adapter behaviour,
\* success + failed = total.
C1_CountsAddUp ==
    mainpc = "done" => results.success + results.failed = results.total

\* C2: after a completed run, success is exactly the number of records that
\* passed validation and whose authenticate and submit_secret both returned
\* true, and every other record is counted once in failed.
C2_SuccessIsExact ==
    mainpc = "done" =>
        LET good == { i \in Recs : /\ Validation(csv_file.rows[i]) = "ok"
                                   /\ authResult[i] = "True"
                                   /\ submitResult[i] = "True" }
        IN  /\ results.success = Cardinality(good)
            /\ results.failed = Cardinality(Recs \ good)
            /\ \A i \in Recs \ good : counted[i] = "failed"

\* C3: a record with a required field absent or empty is always counted as
\* failed, and no adapter is constructed or called for it.
C3_MissingFieldFails ==
    \A i \in Recs :
        MissingRequiredField(csv_file.rows[i]) =>
            AdapterUntouched(i) /\ CountedAsFailed(i)

\* C4: a record of type file or image whose secret path does not exist is
\* always counted as failed, and the adapter is never constructed or invoked
\* for it.
C4_MissingSecretFileFails ==
    \A i \in Recs :
        ( /\ csv_file.rows[i].secret_type \in {"file", "image"}
          /\ PathStat(csv_file.rows[i].secret) = "absent" ) =>
            AdapterUntouched(i) /\ CountedAsFailed(i)

\* C5: a record whose keepic path does not exist is always counted as failed,
\* whatever its secret_type, and the adapter is never invoked for it.
C5_MissingKeepicFails ==
    \A i \in Recs :
        PathStat(csv_file.rows[i].keepic) = "absent" =>
            AdapterUntouched(i) /\ CountedAsFailed(i)

\* C6: in a run that has its permit, the records holding it are at most
\* max_concurrent; with max_concurrent = 1 at most one record is past the
\* authenticate step.
PastAuthenticate(i) ==
    pc[i] \in {"in_authenticate", "submit", "in_submit", "exit_adapter",
               "release"}

C6_PermitBound ==
    semaphore.created =>
        /\ Cardinality({ i \in Recs : Holding(i) }) <= max_concurrent
        /\ max_concurrent = 1 =>
               Cardinality({ i \in Recs : PastAuthenticate(i) }) <= 1

C6_Witness ==
    /\ semaphore.created /\ max_concurrent = 1
    /\ \E i, j \in Recs :
          /\ pc[i] = "in_submit"
          /\ Cardinality({ k \in Recs : Holding(k) }) = max_concurrent
          /\ pc[j] = "scheduled"

\* C7: record tasks suspend at the authentication step and at the submission
\* step, so a permit of size N >= 2 really admits a second record: while one
\* record is inside authenticate or submit_secret and another is scheduled,
\* the event loop has control back to run that other record.
C7_AdapterCallsSuspend ==
    \A i, j \in Recs :
        ( /\ max_concurrent >= 2
          /\ pc[i] \in {"in_authenticate", "in_submit"}
          /\ pc[j] = "scheduled" ) => current = LoopRuns

\* What the code does instead: from acquiring the permit to releasing it a
\* record keeps control, so no two records ever hold a permit together.
OneRecordAtATime ==
    /\ Cardinality({ i \in Recs : Holding(i) }) <= 1
    /\ \A i \in Recs : Holding(i) => current = TaskRuns(i)

\* C8: a record does no work before it holds the permit and gives it back
\* exactly once on every exit path: free permits plus holders is always
\* max_concurrent, and when the run has returned every permit is free.
C8_PermitDiscipline ==
    /\ \A i \in Recs :
          /\ pc[i] \in {"absent", "scheduled", "waiting"} =>
                /\ AdapterUntouched(i)
                /\ submission[i] = <<>>
                /\ pending[i] = "none" /\ outcome[i] = "pending"
          /\ released[i] = IF pc[i] = "finished" THEN 1 ELSE 0
    /\ semaphore.created =>
          /\ semaphore.value + Cardinality({ i \in Recs : Holding(i) })
                = max_concurrent
          /\ mainpc = "done" => semaphore.value = max_concurrent

C8_Witness ==
    /\ mainpc = "done" /\ semaphore.created
    /\ semaphore.value = max_concurrent
    /\ \E i, j \in Recs :
          /\ released[i] = 1 /\ authResult[i] = "raise"
          /\ released[j] = 1 /\ Validation(records[j]) = "False"

\* C9: an adapter that was acquired is released on every exit path and before
\* its record releases the permit: an open adapter belongs to a record that
\* is still inside the `with` block, holding its permit.
C9_AdapterReleasedFirst ==
    \A i \in Recs :
        /\ adapter[i] = "open" =>
              pc[i] \in {"authenticate", "in_authenticate", "submit",
                         "in_submit", "exit_adapter"}
        /\ (pc[i] \in {"release", "finished"} /\ authResult[i] # "none") =>
              adapter[i] = "closed"

C9_Witness ==
    \E i \in Recs :
        /\ pc[i] = "release" /\ adapter[i] = "closed"
        /\ authResult[i] = "True" /\ submitResult[i] = "raise"

\* C10: an exception raised while a record is processed never leaves
\* process_csv_record: the record's result is False, the batch is not
\* aborted, and every record is still processed and counted.
ExceptionSeen(i) ==
    /\ pc[i] = "finished"
    /\ \/ Validation(records[i]) = "raise"
       \/ adapter[i] = "failed"
       \/ authResult[i] = "raise"
       \/ submitResult[i] = "raise"

C10_ExceptionsContained ==
    /\ \A i \in Recs :
          /\ outcome[i] # "Raised"
          /\ pc[i] = "release" => pending[i] \in {"True", "False"}
          /\ ExceptionSeen(i) => outcome[i] = "False"
    /\ (mainpc = "done" /\ \E i \in Recs : ExceptionSeen(i)) =>
          /\ \A j \in Recs : pc[j] = "finished" /\ counted[j] # "no"
          /\ completed = Len(records)

C10_Witness ==
    /\ mainpc = "done"
    /\ \E i, j \in Recs :
          /\ ExceptionSeen(i) /\ counted[i] = "failed"
          /\ counted[j] = "success"

\* C11: a failure of the whole batch (the file cannot be read, or any other
\* error in the batch body) never leaves process_secrets_file: the run
\* returns its aggregate; when the file cannot be read the aggregate is all
\* zero, and a run that failed before its tasks were created has invoked no
\* adapter.
C11_BatchErrorsContained ==
    /\ mainpc # "raised"
    /\ (mainpc = "done" /\ ~csv_file.readable) =>
          /\ results = [total |-> 0, success |-> 0, failed |-> 0]
          /\ records = <<>>
    /\ (mainpc = "done" /\ ~semaphore.created) =>
          /\ results.success = 0 /\ results.failed = 0
          /\ \A i \in Recs : AdapterUntouched(i)

C11_Witness ==
    /\ mainpc = "done" /\ ~csv_file.readable
    /\ results = [total |-> 0, success |-> 0, failed |-> 0]

\* C12: once a run starts with a concurrency bound max_concurrent >= 0, every
\* record eventually resolves and is counted and the run returns; no record
\* stays blocked on the permit forever.
C12_RunCompletes ==
    (mainpc = "open" /\ max_concurrent >= 0) ~>
        (mainpc = "done" /\ \A i \in Recs : counted[i] # "no")

\* What the code guarantees: the same, for a bound of at least one permit.
RunCompletesWithAPermit ==
    (mainpc = "open" /\ max_concurrent >= 1) ~>
        (mainpc = "done" /\ \A i \in Recs : counted[i] # "no")

\* C13: the final aggregate is a function of the inputs and of the result
\* each record's processing came to; neither the order in which the tasks ran
\* nor the order in which their results were counted shows in it.
C13_AggregateDeterministic ==
    mainpc = "done" =>
        results =
            IF ~csv_file.readable
            THEN [total |-> 0, success |-> 0, failed |-> 0]
            ELSE IF max_concurrent < 0
            THEN [total |-> Len(csv_file.rows), success |-> 0, failed |-> 0]
            ELSE [total |-> Len(csv_file.rows),
                  success |->
                      Cardinality({ i \in Recs : outcome[i] = "True" }),
                  failed |->
                      Cardinality({ i \in Recs : outcome[i] = "False" })]

\* A returned run in which the second record was counted before the first
\* and the two results differ.
C13_Witness ==
    /\ mainpc = "done" /\ Len(progress) = 2
    /\ outcome[1] = "True" /\ outcome[2] = "False"
    /\ progress[1].failed = 1 /\ progress[1].success = 0

\* C14: the counters change only in process_secrets_file, after an awaited
\* result has resolved, one result at a time: no record task writes them, and
\* each resolved record moves exactly one of success / failed by exactly 1.
CounterStep ==
    results' # results =>
        \/ /\ mainpc = "open" /\ mainpc' # "open"
           /\ results'.success = results.success
           /\ results'.failed = results.failed
        \/ /\ mainpc = "await" /\ current' = MainRuns
           /\ doneq # <<>> /\ doneq' = Tail(doneq)
           /\ outcome[Head(doneq)] # "pending"
           /\ counted[Head(doneq)] = "no" /\ counted'[Head(doneq)] # "no"
           /\ results'.total = results.total
           /\ \/ /\ results'.success = results.success + 1
                 /\ results'.failed = results.failed
              \/ /\ results'.success = results.success
                 /\ results'.failed = results.failed + 1

SampleWritten ==
    (sample_runs >= 1 /\ output_file.writable) =>
        /\ Len(output_file.lines) = num_records + 1
        /\ output_file.lines[1] =
              <<"username", "password", "secret_type", "secret",
                "secret_desc", "keepic">>
        /\ \A k \in 2..Len(output_file.lines) :
              /\ Len(output_file.lines[k]) = 6
              /\ output_file.lines[k][3] = "text"

C15_SampleGeneration ==
    /\ []SampleWritten
    /\ [][sample_runs >= 1 => output_file' = output_file]_vars

C15_Witness ==
    /\ sample_runs = 2 /\ num_records = 2
    /\ Len(output_file.lines) = 3
    /\ output_file.lines[3][1] = "user2"
    /\ output_file.lines[3][3] = "text"

\* C16: the calls on a record's adapter follow one protocol: the adapter is
\* acquired once, authenticate is called once with the record's username and
\* password, submit_secret at most once and only after authenticate returned
\* true, and the record's result is true only if submit_secret returned true;
\* a record whose authenticate returned false never calls submit_secret.
CallNames(i) == [k \in DOMAIN calls[i] |-> calls[i][k][1]]

IsPrefix(s, t) ==
    Len(s) <= Len(t) /\ \A k \in 1..Len(s) : s[k] = t[k]

C16_CallProtocol ==
    \A i \in Recs :
        /\ \/ IsPrefix(CallNames(i),
                       <<"__enter__", "authenticate", "submit_secret",
                         "__exit__">>)
           \/ CallNames(i) = <<"__enter__", "authenticate", "__exit__">>
        /\ \A k \in DOMAIN calls[i] :
              /\ calls[i][k][1] = "authenticate" =>
                    /\ calls[i][k][2] = csv_file.rows[i].username
                    /\ calls[i][k][3] = csv_file.rows[i].password
              /\ calls[i][k][1] = "submit_secret" =>
                    /\ authResult[i] = "True"
                    /\ calls[i][k][2].name = csv_file.rows[i].secret_desc
        /\ authResult[i] \in {"False", "raise"} => submitResult[i] = "none"
        /\ outcome[i] = "True" => submitResult[i] = "True"
        /\ (pc[i] = "finished" /\ Validation(csv_file.rows[i]) = "ok") =>
              /\ Len(calls[i]) >= 1
              /\ adapter[i] = "closed" =>
                    Cardinality({ k \in DOMAIN calls[i] :
                                    calls[i][k][1] = "authenticate" }) = 1

C16_Witness ==
    \E i, j \in Recs :
        /\ pc[i] = "finished" /\ outcome[i] = "True"
        /\ CallNames(i) =
              <<"__enter__", "authenticate", "submit_secret", "__exit__">>
        /\ pc[j] = "finished" /\ authResult[j] = "False"
        /\ CallNames(j) = <<"__enter__", "authenticate", "__exit__">>

\* C17: a progress line follows each counted result and only that: the k-th
\* line reports completed = k, every line has completed = success + failed
\* and completed <= total, success and failed never decrease from one line to
\* the next, and a returned run has emitted exactly total lines.
C17_ProgressLines ==
    /\ \A k \in DOMAIN progress :
          /\ progress[k].completed = k
          /\ progress[k].completed = progress[k].success + progress[k].failed
          /\ progress[k].completed <= progress[k].total
          /\ k > 1 => /\ progress[k].success >= progress[k - 1].success
                      /\ progress[k].failed >= progress[k - 1].failed
    /\ mainpc = "done" => Len(progress) = results.total

\* C18: every record handed to the adapter has a secret_type among text,
\* file and image; a record of any other type never reaches the adapter.
C18_OnlyKnownTypesReachAdapter ==
    \A i \in Recs :
        (adapter[i] # "none" \/ calls[i] # <<>>) =>
            csv_file.rows[i].secret_type \in {"text", "file", "image"}

\* C19: the submission built for a record is name = secret_desc,
\* type = secret_type, keepic_path = keepic, tag empty, text the secret for
\* type text and empty for every other type; it is built only once validation
\* has passed and before the adapter is acquired, and it is what submit_secret
\* receives.
C19_SubmissionProjection ==
    \A i \in Recs :
        /\ Len(submission[i]) <= 1
        /\ submission[i] # <<>> =>
              LET s == submission[i][1]
                  r == csv_file.rows[i]
              IN  /\ s.name = r.secret_desc
                  /\ s.type = r.secret_type
                  /\ s.keepic_path = r.keepic
                  /\ s.tag = ""
                  /\ r.secret_type = "text" => s.text = r.secret
                  /\ r.secret_type # "text" => s.text = ""
                  /\ Validation(r) = "ok"
                  /\ pc[i] \notin {"absent", "scheduled", "waiting",
                                   "validate", "build"}
        /\ (adapter[i] # "none" \/ calls[i] # <<>>) => submission[i] # <<>>
        /\ pc[i] = "enter" => submission[i] # <<>> /\ adapter[i] = "none"
        /\ \A k \in DOMAIN calls[i] :
              calls[i][k][1] = "submit_secret" =>
                  calls[i][k][2] = submission[i][1]

C19_Witness ==
    \E i, j \in Recs :
        /\ csv_file.rows[i].secret_type = "text"
        /\ submission[i] # <<>>
        /\ submission[i][1].text = "This is secret #1"
        /\ csv_file.rows[j].secret_type = "video"
        /\ pc[j] = "enter"
        /\ submission[j] # <<>>
        /\ submission[j][1].text = "" /\ submission[j][1].type = "video"

====
